---- MODULE Spec2Model ----
(***************************************************************************)
(* NBA analytics dashboard: src/app.py (the Streamlit script, re-executed  *)
(* top to bottom on every interaction) and src/simulator.py (the trade     *)
(* simulator tab).                                                         *)
(*                                                                         *)
(* Number representation.  Counting stats (PTS, AST, REB, FGA, FTA, MIN,   *)
(* the per-36 columns) are integers in tenths; percentage columns are      *)
(* integers in thousandths.  Quotients (FTr, percentile ranks) are exact   *)
(* rationals [num, den].  Products with the decimal literals of the code   *)
(* (1.03, 0.95, 1.2, 1.1, 0.2, share/100) are exact integers in the unit   *)
(* stated at each definition; binary floating-point rounding is not        *)
(* modelled.                                                               *)
(***************************************************************************)
EXTENDS Integers, Sequences, FiniteSets, TLC

VARIABLES
    \* widgets of the sidebar (src/app.py)
    selected_season, min_games, comparison_mode, p1_name, p2_name,
    \* the environment: wall clock (seconds), the external stats source
    clock, srcUp, srcVersion,
    \* st.cache_data stores of get_nba_data and get_career_stats
    nbaCache, careerCache,
    \* module-level names of the last script run
    df, df_filtered, percentile_df, player_list,
    \* what the last script run displayed, and the source calls it made
    outcome, careerView, fetchError, nbaCalls, careerCalls,
    \* render_simulator_tab (src/simulator.py): arguments, widgets, results
    sim_df, player_name, player_stats, base_projection,
    remove_players, add_players, impact_share, simOut,
    \* generate_projection probe: arguments and result
    projIn, projOut,
    \* free-throw-rate probe: one fetched row before and after line 29
    ftrIn, ftrOut

vars == <<selected_season, min_games, comparison_mode, p1_name, p2_name,
          clock, srcUp, srcVersion, nbaCache, careerCache,
          df, df_filtered, percentile_df, player_list,
          outcome, careerView, fetchError, nbaCalls, careerCalls,
          sim_df, player_name, player_stats, base_projection,
          remove_players, add_players, impact_share, simOut,
          projIn, projOut, ftrIn, ftrOut>>

dashVars == <<selected_season, min_games, comparison_mode, p1_name, p2_name,
              clock, srcUp, srcVersion, nbaCache, careerCache,
              df, df_filtered, percentile_df, player_list,
              outcome, careerView, fetchError, nbaCalls, careerCalls>>

simVars == <<sim_df, player_name, player_stats, base_projection,
             remove_players, add_players, impact_share, simOut>>

projVars == <<projIn, projOut>>

ftrVars == <<ftrIn, ftrOut>>

-----------------------------------------------------------------------------
(* Bounds of the model *)

\* the wall clock stops advancing here
MaxClock == 3600
\* how many times the external source publishes new data for the live season
MaxVersion == 1
\* largest FTA / FGA value (tenths) of the free-throw-rate probe
MaxAttempts == 12
\* largest stat value (tenths) of the projection probe
MaxStat == 4

(* Program constants *)

\* st.cache_data(ttl=3600)
ttl == 3600
\* st.sidebar.slider("Min Games Played", 0, 82, 15)
MinGamesLo == 0
MinGamesHi == 82
MinGamesDefault == 15
\* st.slider(slider_label, min_value=0, max_value=50, value=15)
ShareLo == 0
ShareHi == 50
ShareDefault == 15

-----------------------------------------------------------------------------
(* Generic helpers *)

RECURSIVE SumSeq(_)
SumSeq(s) == IF s = <<>> THEN 0 ELSE Head(s) + SumSeq(Tail(s))

Range(s) == {s[i] : i \in 1..Len(s)}

\* the value Python's None
None == "None"

\* pd.DataFrame(): the empty table
EmptyTable == <<>>

-----------------------------------------------------------------------------
(* The external stats source (nba_api).  Out of the repository; the tables *)
(* below are the inputs the model feeds the code with.                     *)

\* the seasons of the "Season" box the model explores (line 49)
Seasons == <<"2024-25", "2023-24">>

\* an earlier season with a larger table, used for the trade simulator
SimSeason == "2022-23"

\* alphabetical order of every PLAYER_NAME the source knows (sort_values)
NameOrder == <<"Alex Able", "Cody Cole", "Dan Dorn", "Joel Embiid", "Sam Smith", "Zed Zane">>

PG(id, name, team, age, gp, mins, pts, ast, reb, fga, fta, fg3) ==
    [PLAYER_ID |-> id, PLAYER_NAME |-> name, TEAM_ID |-> team, AGE |-> age,
     GP |-> gp, MIN |-> mins, PTS |-> pts, AST |-> ast, REB |-> reb,
     FGA |-> fga, FTA |-> fta, FG3_PCT |-> fg3]

P36(id, pts, stl, blk) == [PLAYER_ID |-> id, PTS |-> pts, STL |-> stl, BLK |-> blk]

ADV(id, ts, efg, astp, oreb, dreb) ==
    [PLAYER_ID |-> id, TS_PCT |-> ts, EFG_PCT |-> efg, AST_PCT |-> astp,
     OREB_PCT |-> oreb, DREB_PCT |-> dreb]

\* games played so far in the live season: grows with every publication
LiveGP(id, v) == IF id + 1 + 13 * v > 82 THEN 82 ELSE id + 1 + 13 * v

SourcePerGame(season, v) ==
    IF season = "2022-23" THEN
      << PG(1, "Joel Embiid", 10, 29, 66, 346, 331, 42, 102, 200, 117, 330),
         PG(2, "Alex Able",   10, 22, 60, 337, 203, 35,  29, 150,  38, 434),
         PG(3, "Sam Smith",   10, 24, 69, 109,  42,  4,  38,  50,  12, 167),
         PG(4, "Cody Cole",   20, 26, 68, 350, 240, 62,  35, 100,  59, 416),
         PG(5, "Dan Dorn",    20, 30, 76, 300, 102, 38,  78,  50,  17, 372),
         PG(6, "Sam Smith",   20, 32,  3,  21,   7,  3,   3,   0,   4,   0),
         PG(7, "Zed Zane",    20, 25, 12,  80,  30, 10,  20,  30,  10, 300) >>
    ELSE IF season = "2023-24" THEN
      << PG(1, "Joel Embiid", 10, 30, 39, 336, 347, 56, 110, 200, 116, 388),
         PG(2, "Alex Able",   10, 23, 82, 375, 259, 62,  37, 150,  50, 373),
         PG(3, "Sam Smith",   20, 33,  3,  21,   7,  3,   3,   0,   4,   0),
         PG(7, "Zed Zane",    20, 26, 12,  80,  30, 10,  20,  30,  10, 300) >>
    ELSE
      << PG(1, "Joel Embiid", 10, 31, LiveGP(1, v), 301, 237, 45,  82, 170,  88, 299),
         PG(2, "Alex Able",   10, 24, LiveGP(2, v), 377, 263, 61,  33, 150,  56, 337),
         PG(3, "Sam Smith",   10, 34, LiveGP(3, v), 193,  73, 13,  60,  50,  20, 368) >>

SourcePer36(season, v) ==
    IF season = "2022-23" THEN
      << P36(1, 344, 10, 18), P36(2, 217, 9, 1), P36(3, 139, 15, 24),
         P36(4, 247, 9, 2),   P36(5, 122, 9, 2), P36(6, 120, 0, 0),
         P36(7, 135, 9, 5) >>
    ELSE IF season = "2023-24" THEN
      << P36(1, 372, 12, 18), P36(2, 249, 9, 5), P36(3, 120, 0, 0),
         P36(7, 135, 9, 5) >>
    ELSE
      << P36(1, 283, 8, 11), P36(2, 251, 17, 4), P36(3, 136, 17, 18) >>

\* the advanced table has no row for player 7: the join drops that player
SourceAdvanced(season, v) ==
    IF season = "2022-23" THEN
      << ADV(1, 655, 573, 233, 59, 244), ADV(2, 608, 573, 155, 11, 78),
         ADV(3, 632, 593, 55, 147, 244),  ADV(4, 597, 573, 301, 19, 86),
         ADV(5, 590, 560, 140, 40, 210),  ADV(6, 601, 0, 200, 0, 92) >>
    ELSE IF season = "2023-24" THEN
      << ADV(1, 644, 556, 301, 82, 274), ADV(2, 573, 526, 261, 15, 92),
         ADV(3, 601, 0, 200, 0, 92) >>
    ELSE
      << ADV(1, 586, 490, 250, 70, 240), ADV(2, 564, 520, 255, 10, 85),
         ADV(3, 601, 571, 90, 120, 240) >>

\* playercareerstats: one row per season, totals
CareerSeason(sid, gp, pts, ast, reb) ==
    [SEASON_ID |-> sid, GP |-> gp, PTS |-> pts, AST |-> ast, REB |-> reb]

SourceCareer(player_id) ==
    IF player_id = 1 THEN << CareerSeason("2022-23", 66, 2183, 274, 670),
                             CareerSeason("2023-24", 39, 1353, 219, 430) >>
    ELSE IF player_id = 2 THEN << CareerSeason("2023-24", 70, 1815, 435, 257) >>
    ELSE << CareerSeason("2023-24", 8, 36, 10, 25) >>

-----------------------------------------------------------------------------
(* src/app.py, section 1: data loading *)

\* base_p36[['PLAYER_ID','PTS','STL','BLK']] with columns renamed (lines 23-24)
RenameP36(r) == [PLAYER_ID |-> r.PLAYER_ID, PTS_36 |-> r.PTS, STL_36 |-> r.STL, BLK_36 |-> r.BLK]

\* pd.merge(left, right, on='PLAYER_ID'): inner join, left order, keys unique
Merge(left, right) ==
    LET matched == SelectSeq(left, LAMBDA l : \E j \in 1..Len(right) : right[j].PLAYER_ID = l.PLAYER_ID)
        partner(l) == right[CHOOSE j \in 1..Len(right) : right[j].PLAYER_ID = l.PLAYER_ID]
    IN  [i \in 1..Len(matched) |-> matched[i] @@ partner(matched[i])]

\* a variant without the zero guard
ReplacedFGAUnguarded(row) == row.FGA

\* df['FGA'].replace(0, 1) for one row (line 29): a new value, the row keeps
\* FGA; in tenths, so the substituted 1 is 10 tenths
ReplacedFGA(row) == IF row.FGA = 0 THEN 10 ELSE row.FGA

\* df['FTr'] = df['FTA'] / df['FGA'].replace(0, 1) for one row (line 29):
\* tenths over tenths, an exact ratio
WithFTr(row) == row @@ [FTr |-> [num |-> row.FTA, den |-> ReplacedFGA(row)]]

\* the body of get_nba_data (lines 17-33): the result and whether st.error ran
FetchNbaData(season, up, v) ==
    IF ~up
    THEN [value |-> EmptyTable, error |-> TRUE]
    ELSE LET base_pg  == SourcePerGame(season, v)
             per36    == SourcePer36(season, v)
             base_p36 == [i \in 1..Len(per36) |-> RenameP36(per36[i])]
             adv      == SourceAdvanced(season, v)
             merged   == Merge(Merge(base_pg, base_p36), adv)
             \* the RangeIndex label of each row of the merged frame
             labelled == [i \in 1..Len(merged) |-> merged[i] @@ [index |-> i - 1]]
         IN  [value |-> [i \in 1..Len(labelled) |-> WithFTr(labelled[i])], error |-> FALSE]

\* numpy round-half-even of n / d to an integer (d > 0, n >= 0)
RoundDiv(n, d) ==
    LET q == n \div d
        r == n % d
    IN  IF 2 * r > d THEN q + 1
        ELSE IF 2 * r < d THEN q
        ELSE IF q % 2 = 0 THEN q ELSE q + 1

\* (df[col] / df['GP']).round(1), in tenths (lines 39-41)
PerGame(total, gp) == RoundDiv(10 * total, gp)

\* the body of get_career_stats (lines 37-44)
FetchCareerStats(player_id, up) ==
    IF ~up
    THEN EmptyTable
    ELSE LET rows == SourceCareer(player_id)
         IN  [i \in 1..Len(rows) |->
                 rows[i] @@ [PPG |-> PerGame(rows[i].PTS, rows[i].GP),
                             APG |-> PerGame(rows[i].AST, rows[i].GP),
                             RPG |-> PerGame(rows[i].REB, rows[i].GP)]]

(* st.cache_data(ttl=3600) (lines 15, 35): one store per decorated function, *)
(* entries keyed by the argument, each kept for ttl seconds after it was     *)
(* stored; a read does not extend it.                                        *)

\* whether an entry stored at time at is still served at time now
Fresh(at, now) == now < at + ttl

\* a variant that serves any live entry, whatever its key
LiveAnyKey(store, key, now) == {e \in store : Fresh(e.at, now)}

\* the live entries of a store for a key
Live(store, key, now) == {e \in store : e.key = key /\ Fresh(e.at, now)}

\* whether a call with this key is answered from the store
Hit(store, key, now) == Live(store, key, now) # {}

\* the store after a miss: expired entries are dropped, the new one is added
Stored(store, key, now, result) ==
    {e \in store : e.key # key /\ Fresh(e.at, now)} \cup {[key |-> key, at |-> now, result |-> result]}

\* the store after a call that returned result: unchanged on a hit, else with
\* the freshly computed result added
StoreAfter(store, key, now, result) ==
    IF Hit(store, key, now) THEN store ELSE Stored(store, key, now, result)

\* the result the caller gets: the live entry's on a hit, else the computed one
ResultOf(store, key, now, computed) ==
    IF Hit(store, key, now)
    THEN (CHOOSE e \in Live(store, key, now) : TRUE).result
    ELSE computed

-----------------------------------------------------------------------------
(* src/app.py, section 2: setup and filtering *)

\* a variant with a strict comparison
FilterGamesStrict(table, threshold) == SelectSeq(table, LAMBDA r : r.GP > threshold)

\* df[df['GP'] >= min_games].copy() (line 61)
FilterGames(table, threshold) == SelectSeq(table, LAMBDA r : r.GP >= threshold)

\* list(metrics_map.keys()) (lines 64-70)
target_cols == <<"MIN", "PTS_36", "FTr", "TS_PCT", "EFG_PCT", "FG3_PCT",
                 "AST_PCT", "OREB_PCT", "DREB_PCT", "STL_36", "BLK_36">>

\* a cell of a metric column as a rational
Cell(row, col) == IF col = "FTr" THEN row.FTr ELSE [num |-> row[col], den |-> 1]

RatLess(a, b) == a.num * b.den < b.num * a.den
RatEq(a, b)   == a.num * b.den = b.num * a.den

\* a variant that gives ties their lowest position (method='min')
AverageRankMin(table, col, i) ==
    [num |-> 1 + Cardinality({j \in 1..Len(table) :
                                 RatLess(Cell(table[j], col), Cell(table[i], col))}),
     den |-> 1]

\* Series.rank(): the mean of the 1-based sorted positions a value's ties hold
AverageRank(table, col, i) ==
    LET below == Cardinality({j \in 1..Len(table) : RatLess(Cell(table[j], col), Cell(table[i], col))})
        ties  == Cardinality({j \in 1..Len(table) : RatEq(Cell(table[j], col), Cell(table[i], col))})
        positions == [k \in 1..ties |-> below + k]
    IN  [num |-> SumSeq(positions), den |-> ties]

\* rank(pct=True) * 100 for one cell (line 71): rank / number of rows * 100
PercentileCell(table, col, i) ==
    LET rank == AverageRank(table, col, i)
    IN  [num |-> 100 * rank.num, den |-> rank.den * Len(table)]

\* percentile_df = df_filtered[target_cols].rank(pct=True) * 100 (line 71)
PercentileTable(table) ==
    [i \in 1..Len(table) |->
        [index |-> table[i].index,
         pct   |-> [c \in Range(target_cols) |-> PercentileCell(table, c, i)]]]

-----------------------------------------------------------------------------
(* src/app.py, section 3: player selection *)

\* df_filtered['PLAYER_NAME'].sort_values().unique() (line 76)
SortedNames(table) ==
    SelectSeq(NameOrder, LAMBDA n : \E i \in 1..Len(table) : table[i].PLAYER_NAME = n)

IndexOf(list, x) == (CHOOSE i \in 1..Len(list) : list[i] = x) - 1

\* the index argument of the "Select Player" box (lines 82-85)
DefaultPlayerIndex(list) ==
    IF "Joel Embiid" \in Range(list) THEN IndexOf(list, "Joel Embiid") ELSE 0

\* the index argument of the "Player 2" box (line 80)
Player2Index(list) == IF Len(list) > 1 THEN 1 ELSE 0

\* st.selectbox: the stored choice when the widget is the one of the last run
\* and the choice is an option, else the option at index; None without options
SelectBox(options, index, stored, sameWidget) ==
    IF options = <<>> THEN None
    ELSE IF sameWidget /\ stored \in Range(options) THEN stored
    ELSE options[index + 1]

-----------------------------------------------------------------------------
(* src/app.py, section 4: helper functions *)

\* df_filtered[df_filtered['PLAYER_NAME'] == name] (line 91)
RowsNamed(table, name) == SelectSeq(table, LAMBDA r : r.PLAYER_NAME = name)

\* whether get_player_data(name) raises IndexError at .iloc[0] (line 91)
PlayerDataRaises(table, name) == RowsNamed(table, name) = <<>>

\* get_player_data(name) (lines 90-91): stats
PlayerStats(table, name) == RowsNamed(table, name)[1]

\* a variant with the lower boundary in the growth bracket
AgeBracketFactorInclusive(current_age) ==
    IF current_age <= 26 THEN 103
    ELSE IF current_age <= 30 THEN 100
    ELSE 95

\* the bracket lookup of generate_projection (lines 106-108), in hundredths
AgeBracketFactor(current_age) ==
    IF current_age < 26 THEN 103
    ELSE IF current_age <= 30 THEN 100
    ELSE 95

\* the optional argument age_factor: Omitted is the default None, <<f>> an
\* explicit multiplier f in hundredths
Omitted == <<>>

\* the multiplier generate_projection uses (lines 105-108), in hundredths
ChosenFactor(current_age, age_factor) ==
    IF age_factor = Omitted THEN AgeBracketFactor(current_age) ELSE age_factor[1]

\* generate_projection(player_stats, age_factor) (lines 103-116): the pair
\* (proj, age_factor); stats in tenths, factor in hundredths, proj in thousandths
generate_projection(stats, age_factor) ==
    LET f == ChosenFactor(stats.AGE, age_factor)
    IN  [proj |-> [PTS |-> stats.PTS * f, AST |-> stats.AST * f,
                   REB |-> stats.REB * f, FGA |-> stats.FGA * f],
         age_factor |-> f]

-----------------------------------------------------------------------------
(* One execution of the script src/app.py, top to bottom, with the sidebar *)
(* widgets holding season, mg, cmp and the stored player choices.          *)

\* the choices of the "Min Games Played" slider the model explores
MinGamesChoices == {MinGamesLo, MinGamesDefault, MinGamesHi}

\* a variant that never stops the run
IsEmptyNever(table) == FALSE

\* df.empty (line 58)
IsEmpty(table) == table = EmptyTable

\* whether the last run got past st.stop() (line 58) and drew the player boxes
WidgetsRendered == outcome \notin {"not_run", "stopped"}

RunScript(season, mg, cmp, stored1, stored2) ==
    \* df = get_nba_data(selected_season) (line 57)
    \E loaded \in {ResultOf(nbaCache, season, clock, FetchNbaData(season, srcUp, srcVersion))} :
    \* lines 60-76
    \E filtered \in {FilterGames(loaded.value, mg)} :
    \E pctTable \in {PercentileTable(filtered)} :
    \E names \in {SortedNames(filtered)} :
    LET nbaHit    == Hit(nbaCache, season, clock)
        table     == loaded.value
        \* a selectbox keeps its stored choice only while it is the same widget:
        \* same label (same mode), same options, rendered by the last run
        same      == comparison_mode = cmp /\ player_list = names /\ WidgetsRendered
        \* lines 78-87
        p1        == IF cmp THEN SelectBox(names, 0, stored1, same)
                     ELSE SelectBox(names, DefaultPlayerIndex(names), stored1, same)
        p2        == IF cmp THEN SelectBox(names, Player2Index(names), stored2, same)
                     ELSE None
        \* line 120 / lines 234-235
        raises1   == PlayerDataRaises(filtered, p1)
        raises2   == PlayerDataRaises(filtered, p2)
        \* career = get_career_stats(stats['PLAYER_ID']) (line 121)
        pid       == PlayerStats(filtered, p1).PLAYER_ID
        careerHit == Hit(careerCache, pid, clock)
        career    == ResultOf(careerCache, pid, clock, FetchCareerStats(pid, srcUp))
    IN  /\ selected_season' = season
        /\ min_games' = mg
        /\ comparison_mode' = cmp
        /\ nbaCache' = StoreAfter(nbaCache, season, clock, loaded)
        /\ df' = table
        /\ fetchError' = loaded.error
        /\ nbaCalls' = IF nbaHit THEN {} ELSE {season}
        /\ IF IsEmpty(table)
           THEN \* if df.empty: st.stop() (line 58)
                /\ outcome' = "stopped"
                /\ df_filtered' = EmptyTable
                /\ percentile_df' = EmptyTable
                /\ player_list' = <<>>
                /\ p1_name' = None
                /\ p2_name' = None
                /\ careerView' = "none"
                /\ careerCache' = careerCache
                /\ careerCalls' = {}
           ELSE /\ df_filtered' = filtered
                /\ percentile_df' = pctTable
                /\ player_list' = names
                /\ p1_name' = p1
                /\ p2_name' = p2
                /\ IF ~cmp
                   THEN IF raises1
                        THEN \* IndexError out of get_player_data, not caught (line 120)
                             /\ outcome' = "exception"
                             /\ careerView' = "none"
                             /\ careerCache' = careerCache
                             /\ careerCalls' = {}
                        ELSE /\ outcome' = "single"
                             /\ careerCache' = StoreAfter(careerCache, pid, clock, career)
                             \* if not career.empty: ... else: st.warning (lines 169, 224)
                             /\ careerView' = IF career = EmptyTable THEN "warning" ELSE "charts"
                             /\ careerCalls' = IF careerHit THEN {} ELSE {pid}
                   ELSE \* try: ... except Exception: st.error (lines 233-268)
                        /\ outcome' = IF raises1 \/ raises2 THEN "comparison_error"
                                      ELSE "comparison"
                        /\ careerView' = "none"
                        /\ careerCache' = careerCache
                        /\ careerCalls' = {}
    /\ UNCHANGED <<clock, srcUp, srcVersion>>

\* the user picks another season in the "Season" box (line 55)
ChangeSeason ==
    /\ outcome # "not_run"
    /\ \E s \in Range(Seasons) :
         /\ s # selected_season
         /\ RunScript(s, min_games, comparison_mode, p1_name, p2_name)
    /\ UNCHANGED <<simVars, projVars, ftrVars>>

\* the user moves the "Min Games Played" slider (line 60)
ChangeMinGames ==
    /\ WidgetsRendered
    /\ \E m \in MinGamesChoices :
         /\ m # min_games
         /\ RunScript(selected_season, m, comparison_mode, p1_name, p2_name)
    /\ UNCHANGED <<simVars, projVars, ftrVars>>

\* the user ticks or unticks "Compare Players" (line 75)
ToggleComparison ==
    /\ WidgetsRendered
    /\ RunScript(selected_season, min_games, ~comparison_mode, p1_name, p2_name)
    /\ UNCHANGED <<simVars, projVars, ftrVars>>

\* the user picks a player in "Select Player" / "Player 1" (lines 79, 87)
SelectPlayer1 ==
    /\ WidgetsRendered
    /\ \E n \in Range(player_list) :
         /\ n # p1_name
         /\ RunScript(selected_season, min_games, comparison_mode, n, p2_name)
    /\ UNCHANGED <<simVars, projVars, ftrVars>>

\* the user picks a player in "Player 2" (line 80)
SelectPlayer2 ==
    /\ WidgetsRendered
    /\ comparison_mode
    /\ \E n \in Range(player_list) :
         /\ n # p2_name
         /\ RunScript(selected_season, min_games, comparison_mode, p1_name, n)
    /\ UNCHANGED <<simVars, projVars, ftrVars>>

\* the page is opened (the first run), reloaded, or any other interaction
\* happens: the script runs with the widgets as they are
Rerun ==
    /\ RunScript(selected_season, min_games, comparison_mode, p1_name, p2_name)
    /\ UNCHANGED <<simVars, projVars, ftrVars>>

\* time passes between two interactions
TickSteps == {1800}

\* a store without the entries whose window has ended (they are never served)
Unexpired(store, now) == {e \in store : Fresh(e.at, now)}

Tick ==
    /\ \E d \in TickSteps :
         /\ clock + d <= MaxClock
         /\ clock' = clock + d
         /\ nbaCache' = Unexpired(nbaCache, clock + d)
         /\ careerCache' = Unexpired(careerCache, clock + d)
    /\ UNCHANGED <<selected_season, min_games, comparison_mode, p1_name, p2_name,
                   srcUp, srcVersion,
                   df, df_filtered, percentile_df, player_list,
                   outcome, careerView, fetchError, nbaCalls, careerCalls,
                   simVars, projVars, ftrVars>>

\* the external source becomes unreachable, or reachable again
SourceFlips ==
    /\ srcUp' = ~srcUp
    /\ UNCHANGED <<selected_season, min_games, comparison_mode, p1_name, p2_name,
                   clock, srcVersion, nbaCache, careerCache,
                   df, df_filtered, percentile_df, player_list,
                   outcome, careerView, fetchError, nbaCalls, careerCalls,
                   simVars, projVars, ftrVars>>

\* the external source publishes new numbers for the live season
SourcePublishes ==
    /\ srcVersion < MaxVersion
    /\ srcVersion' = srcVersion + 1
    /\ UNCHANGED <<selected_season, min_games, comparison_mode, p1_name, p2_name,
                   clock, srcUp, nbaCache, careerCache,
                   df, df_filtered, percentile_df, player_list,
                   outcome, careerView, fetchError, nbaCalls, careerCalls,
                   simVars, projVars, ftrVars>>

\* the idle values of the variables a specification does not drive
SimIdle ==
    /\ sim_df = EmptyTable /\ player_name = None /\ player_stats = None
    /\ base_projection = None /\ remove_players = {} /\ add_players = {}
    /\ impact_share = ShareDefault /\ simOut = None

ProjIdle == projIn = None /\ projOut = <<>>

FtrIdle == ftrIn = None /\ ftrOut = <<>>

DashIdle ==
    /\ selected_season = "2023-24" /\ min_games = MinGamesDefault
    /\ comparison_mode = FALSE /\ p1_name = None /\ p2_name = None
    /\ clock = 0 /\ srcUp = TRUE /\ srcVersion = 0
    /\ nbaCache = {} /\ careerCache = {}
    /\ df = EmptyTable /\ df_filtered = EmptyTable /\ percentile_df = EmptyTable
    /\ player_list = <<>> /\ outcome = "not_run" /\ careerView = "none"
    /\ fetchError = FALSE /\ nbaCalls = {} /\ careerCalls = {}

\* the session opens: nothing cached, nothing run; the first action is the
\* first execution of the script with the widgets at their defaults
Init ==
    /\ DashIdle
    /\ SimIdle /\ ProjIdle /\ FtrIdle

Next ==
    \/ ChangeSeason
    \/ ChangeMinGames
    \/ ToggleComparison
    \/ SelectPlayer1
    \/ SelectPlayer2
    \/ Rerun
    \/ SourceFlips

Spec == Init /\ [][Next]_vars

\* the single-player session with time passing and the live season's numbers
\* changing, for the expiry of the two stores
NextCache ==
    \/ ChangeSeason
    \/ ChangeMinGames
    \/ Rerun
    \/ Tick
    \/ SourceFlips
    \/ SourcePublishes

SpecCache == Init /\ [][NextCache]_vars

-----------------------------------------------------------------------------
(* src/simulator.py: render_simulator_tab(df, player_name, player_stats,   *)
(* base_projection), one rendering of the tab for the current widgets.     *)

\* teammates (lines 15-17): the subject's team without rows of the subject's name
Teammates(table, name, stats) ==
    SelectSeq(SelectSeq(table, LAMBDA r : r.TEAM_ID = stats.TEAM_ID),
              LAMBDA r : r.PLAYER_NAME # name)

\* a variant that excludes the subject alone from the incoming candidates
CurrentRosterNamesSelfOnly(table, name, stats) == {name}

\* current_roster_names (lines 20-21)
CurrentRosterNames(table, name, stats) ==
    {r.PLAYER_NAME : r \in Range(Teammates(table, name, stats))} \cup {name}

\* available_free_agents (line 23)
AvailableFreeAgents(table, name, stats) ==
    SelectSeq(table, LAMBDA r : r.PLAYER_NAME \notin CurrentRosterNames(table, name, stats))

\* the options of the two multiselects (lines 28, 34)
OutgoingOptions(table, name, stats) == SortedNames(Teammates(table, name, stats))
IncomingOptions(table, name, stats) == SortedNames(AvailableFreeAgents(table, name, stats))

\* frame[frame['PLAYER_NAME'].isin(chosen)]['FGA'].sum() (lines 45-46, 54-55), tenths
TotalFGA(frame, chosen) ==
    LET rows == SelectSeq(frame, LAMBDA r : r.PLAYER_NAME \in chosen)
    IN  SumSeq([i \in 1..Len(rows) |-> rows[i].FGA])

\* the (name, FGA) pairs of outgoing_desc / incoming_desc (lines 49-50, 58-59)
Desc(frame, chosen) ==
    LET rows == SelectSeq(frame, LAMBDA r : r.PLAYER_NAME \in chosen)
    IN  [i \in 1..Len(rows) |-> <<rows[i].PLAYER_NAME, rows[i].FGA>>]

\* net_vacant_fga after lines 39-59, tenths
NetVacantFGA(table, name, stats, remove, add) ==
    (IF remove # {} THEN TotalFGA(Teammates(table, name, stats), remove) ELSE 0)
    - (IF add # {} THEN TotalFGA(AvailableFreeAgents(table, name, stats), add) ELSE 0)

\* slider_label (lines 62-73)
SliderLabel(net) ==
    IF net > 0 THEN "Usage Absorption %"
    ELSE IF net < 0 THEN "Usage Sacrifice %"
    ELSE "Impact Share %"

\* volume_change = net_vacant_fga * share_rate with share_rate = impact_share / 100
\* (lines 86, 109): tenths times percent, so thousandths
VolumeChange(net, share) == net * share

\* a variant that applies the gain-side multiplier in both directions
EfficiencyMultiplierGainOnly(volume_change) == 12

\* efficiency_multiplier (line 112), in tenths
EfficiencyMultiplier(volume_change) == IF volume_change > 0 THEN 12 ELSE 11

\* a variant that looks at the outgoing set alone
ScenarioActiveOutgoingOnly(remove, add) == remove # {}

\* if remove_players or add_players (lines 89, 107)
ScenarioActive(remove, add) == remove # {} \/ add # {}

\* the caption under the slider (lines 89-96)
VolumeCaption(net, share, remove, add) ==
    IF ScenarioActive(remove, add)
    THEN IF VolumeChange(net, share) > 0 THEN "gains"
         ELSE IF VolumeChange(net, share) < 0 THEN "loses"
         ELSE "No significant volume change."
    ELSE "none"

\* lines 98-137: the projected values, in ten-thousandths, and the message
ProjectedImpact(table, name, stats, base, remove, add, share) ==
    LET net    == NetVacantFGA(table, name, stats, remove, add)
        active == ScenarioActive(remove, add)
        volume_change == VolumeChange(net, share)
        points_change == volume_change * EfficiencyMultiplier(volume_change)
    IN  [outgoing_options |-> OutgoingOptions(table, name, stats),
         incoming_options |-> IncomingOptions(table, name, stats),
         net_vacant_fga |-> net,
         slider_label |-> SliderLabel(net),
         caption      |-> VolumeCaption(net, share, remove, add),
         volume_change |-> IF active THEN volume_change ELSE 0,
         final_pts |-> IF active THEN 10 * base.PTS + points_change ELSE 10 * base.PTS,
         final_ast |-> IF active THEN 10 * base.AST + volume_change * 2 ELSE 10 * base.AST,
         final_reb |-> 10 * base.REB,
         impact_msg |-> IF active THEN "scenario"
                        ELSE "No scenario active. Showing Age-Adjusted Baseline.",
         leaving  |-> IF remove # {} THEN Desc(Teammates(table, name, stats), remove) ELSE <<>>,
         joining  |-> IF add # {} THEN Desc(AvailableFreeAgents(table, name, stats), add) ELSE <<>>,
         banner   |-> IF net < 0 THEN "warning" ELSE "success"]

\* the share percentages of the slider the model explores (0..50, step 1)
ShareChoices == {ShareLo, 1, ShareDefault, 20, 33, ShareHi}

\* one rendering of the tab with the widgets at remove, add, share
RenderSimulator(remove, add, share) ==
    /\ remove_players' = remove
    /\ add_players' = add
    /\ impact_share' = share
    /\ simOut' = ProjectedImpact(sim_df, player_name, player_stats, base_projection,
                                 remove, add, share)
    /\ UNCHANGED <<sim_df, player_name, player_stats, base_projection>>

\* the user adds or removes one name in "Remove Teammates (Outgoing)"
ToggleOutgoing ==
    /\ \E n \in Range(simOut.outgoing_options) :
         RenderSimulator(IF n \in remove_players THEN remove_players \ {n}
                         ELSE remove_players \cup {n}, add_players, impact_share)
    /\ UNCHANGED <<dashVars, projVars, ftrVars>>

\* the user adds or removes one name in "Add Players (Incoming)"
ToggleIncoming ==
    /\ \E n \in Range(simOut.incoming_options) :
         RenderSimulator(remove_players, IF n \in add_players THEN add_players \ {n}
                                         ELSE add_players \cup {n}, impact_share)
    /\ UNCHANGED <<dashVars, projVars, ftrVars>>

\* the user moves the share slider
MoveShare ==
    /\ \E sh \in ShareChoices :
         /\ sh # impact_share
         /\ RenderSimulator(remove_players, add_players, sh)
    /\ UNCHANGED <<dashVars, projVars, ftrVars>>

\* the tables app.py can pass as df (line 228)
SimTables == {FetchNbaData(s, TRUE, 0).value : s \in {SimSeason} \cup Range(Seasons)}

\* the tab as first drawn for a subject app.py selected: df is the unfiltered
\* season table, stats the subject's row of the filtered one (lines 120, 227-228)
InitSim ==
    /\ DashIdle /\ ProjIdle /\ FtrIdle
    /\ sim_df \in SimTables
    /\ \E mg \in MinGamesChoices :
         /\ player_name \in Range(SortedNames(FilterGames(sim_df, mg)))
         /\ player_stats = PlayerStats(FilterGames(sim_df, mg), player_name)
    /\ base_projection = generate_projection(player_stats, Omitted).proj
    /\ remove_players = {}
    /\ add_players = {}
    /\ impact_share = ShareDefault
    /\ simOut = ProjectedImpact(sim_df, player_name, player_stats, base_projection,
                                {}, {}, ShareDefault)

NextSim ==
    \/ ToggleOutgoing
    \/ ToggleIncoming
    \/ MoveShare

SpecSim == InitSim /\ [][NextSim]_vars

-----------------------------------------------------------------------------
(* generate_projection on its own: the arguments are drawn, then it is applied *)

AgeChoices == {19, 25, 26, 28, 30, 31, 40}

\* the age_factor arguments: omitted, or an explicit multiplier in hundredths
FactorChoices == {Omitted, <<0>>, <<95>>, <<100>>, <<103>>, <<110>>}

InitProj ==
    /\ DashIdle /\ SimIdle /\ FtrIdle
    /\ projIn \in [stats : [AGE : AgeChoices, PTS : 0..MaxStat, AST : 0..MaxStat,
                            REB : {0, MaxStat}, FGA : {0, MaxStat}],
                   age_factor : FactorChoices]
    /\ projOut = <<>>

\* projOut holds the results of the calls made so far, latest last
Project ==
    /\ projOut = <<>>
    /\ projOut' = <<generate_projection(projIn.stats, projIn.age_factor)>>
    /\ UNCHANGED <<projIn, dashVars, simVars, ftrVars>>

\* the same call made again
ProjectAgain ==
    /\ Len(projOut) = 1
    /\ projOut' = Append(projOut, generate_projection(projIn.stats, projIn.age_factor))
    /\ UNCHANGED <<projIn, dashVars, simVars, ftrVars>>

NextProj == Project \/ ProjectAgain

SpecProj == InitProj /\ [][NextProj]_vars

-----------------------------------------------------------------------------
(* line 29 of get_nba_data on its own: one merged row, then the FTr column *)

InitFtr ==
    /\ DashIdle /\ SimIdle /\ ProjIdle
    /\ ftrIn \in [PLAYER_ID : {1}, FTA : 0..MaxAttempts, FGA : 0..MaxAttempts]
    /\ ftrOut = <<>>

\* ftrOut holds the row once the column is added
ComputeFTr ==
    /\ ftrOut = <<>>
    /\ ftrOut' = <<WithFTr(ftrIn)>>
    /\ UNCHANGED <<ftrIn, dashVars, simVars, projVars>>

NextFtr == ComputeFTr

SpecFtr == InitFtr /\ [][NextFtr]_vars

-----------------------------------------------------------------------------
(* Properties *)

RECURSIVE SumFGA(_)
SumFGA(rows) ==
    IF rows = {} THEN 0
    ELSE LET r == CHOOSE x \in rows : TRUE IN r.FGA + SumFGA(rows \ {r})

\* the rows a scenario names: selected teammates leaving, selected players joining
SelectedOutgoing ==
    {r \in Range(sim_df) : /\ r.TEAM_ID = player_stats.TEAM_ID
                           /\ r.PLAYER_NAME # player_name
                           /\ r.PLAYER_NAME \in remove_players}

SelectedIncoming == {r \in Range(sim_df) : r.PLAYER_NAME \in add_players}

\* C1: with at least one of the outgoing and incoming sets non-empty and any
\* share s, net vacated volume = sum of the outgoing teammates' FGA - sum of
\* the incoming players' FGA; volume change = net * s / 100; final points =
\* baseline + volume change * 1.2 when the change is positive, * 1.1
\* otherwise; final assists = baseline + volume change * 0.2; rebounds stay
\* at the baseline.  (15.0 out, 5.0 in, 20%) gives +2.0 FGA, +2.4 points,
\* +0.4 assists; (5.0 out, 10.0 in, 50%) gives -2.5 FGA, -2.75 points.
\* Units: FGA in tenths, volume change in thousandths, finals in ten-thousandths.
C1_TradeVolumeReallocation ==
    (remove_players # {} \/ add_players # {}) =>
        LET leaving == SumFGA(SelectedOutgoing)
            joining == SumFGA(SelectedIncoming)
            net     == leaving - joining
            change  == net * impact_share
        IN  /\ simOut.net_vacant_fga = net
            /\ simOut.volume_change = change
            /\ simOut.final_pts = 10 * base_projection.PTS
                                  + (IF change > 0 THEN 12 * change ELSE 11 * change)
            /\ simOut.final_ast = 10 * base_projection.AST + 2 * change
            /\ simOut.final_reb = 10 * base_projection.REB
            /\ (leaving = 150 /\ joining = 50 /\ impact_share = 20) =>
                   /\ simOut.volume_change = 2000
                   /\ simOut.final_pts - 10 * base_projection.PTS = 24000
                   /\ simOut.final_ast - 10 * base_projection.AST = 4000
            /\ (leaving = 50 /\ joining = 100 /\ impact_share = 50) =>
                   /\ simOut.volume_change = -2500
                   /\ simOut.final_pts - 10 * base_projection.PTS = -27500

\* the second scenario of C1 is on screen: 5.0 out, 10.0 in, 50% share
C1_Witness ==
    /\ remove_players # {} /\ add_players # {}
    /\ SumFGA(SelectedOutgoing) = 50 /\ SumFGA(SelectedIncoming) = 100
    /\ impact_share = 50
    /\ simOut.volume_change = -2500

\* C2: with both sets empty the net vacated volume is 0 and the final points,
\* assists and rebounds are exactly the age-only baseline, whatever the share,
\* and the message is the "No scenario active" indicator; the indicator is
\* shown only when both sets are empty.
C2_EmptyScenarioIsBaseline ==
    /\ (remove_players = {} /\ add_players = {}) =>
          /\ simOut.net_vacant_fga = 0
          /\ simOut.final_pts = 10 * base_projection.PTS
          /\ simOut.final_ast = 10 * base_projection.AST
          /\ simOut.final_reb = 10 * base_projection.REB
          /\ simOut.impact_msg = "No scenario active. Showing Age-Adjusted Baseline."
    /\ simOut.impact_msg = "No scenario active. Showing Age-Adjusted Baseline."
          => (remove_players = {} /\ add_players = {})

\* both sets empty with the share moved to its maximum
C2_Witness ==
    /\ remove_players = {} /\ add_players = {}
    /\ impact_share = ShareHi
    /\ base_projection.PTS > 0
    /\ simOut.impact_msg = "No scenario active. Showing Age-Adjusted Baseline."

\* the current roster: the subject and every row with the subject's TEAM_ID
RosterRows == {r \in Range(sim_df) : r.TEAM_ID = player_stats.TEAM_ID}

RosterNames == {r.PLAYER_NAME : r \in RosterRows} \cup {player_name}

\* C3: the incoming-candidate list holds no player of the current roster, the
\* outgoing-candidate list holds only roster members other than the subject,
\* and no selection made through the two multiselects has a player in both
\* the outgoing and the incoming set.
C3_RosterNeverIncoming ==
    /\ Range(simOut.incoming_options) \cap RosterNames = {}
    /\ \A r \in Range(sim_df) :
          r.PLAYER_NAME \in Range(simOut.incoming_options) => r \notin RosterRows
    /\ \A n \in Range(simOut.outgoing_options) :
          /\ n # player_name
          /\ \E r \in RosterRows : r.PLAYER_NAME = n
    /\ remove_players \subseteq Range(simOut.outgoing_options)
    /\ add_players \subseteq Range(simOut.incoming_options)
    /\ remove_players \cap add_players = {}
    /\ SelectedOutgoing \cap SelectedIncoming = {}

\* both sets are non-empty, on a table where a player of another team bears
\* the name of a roster member
C3_Witness ==
    /\ remove_players # {} /\ add_players # {}
    /\ \E r \in Range(sim_df) : r \notin RosterRows /\ r.PLAYER_NAME \in RosterNames

\* the rows of the loaded season table with GP at or above the threshold
Population == SelectSeq(df, LAMBDA r : r.GP >= min_games)

\* the tables the external source can return for the selected season
SeasonTables == {FetchNbaData(selected_season, TRUE, v).value : v \in 0..MaxVersion}

\* C4: after any sequence of season and threshold changes, the percentile
\* table in use is the one computed from exactly the rows of the loaded table
\* of the current season with GP >= the current threshold, and the rows that
\* remain carry the raw values of the fetched table.
C4_PercentilesOverCurrentFilter ==
    WidgetsRendered =>
        /\ df \in SeasonTables
        /\ df_filtered = Population
        /\ percentile_df = PercentileTable(Population)
        /\ \A i \in 1..Len(df_filtered) :
              \E j \in 1..Len(df) : df[j] = df_filtered[i] /\ df[j].index = percentile_df[i].index

\* both seasons have been loaded and the threshold, moved off its default,
\* keeps some rows of the current season and drops others
C4_Witness ==
    /\ WidgetsRendered
    /\ \A s \in Range(Seasons) : \E e \in nbaCache : e.key = s
    /\ min_games # MinGamesDefault
    /\ df_filtered # EmptyTable
    /\ Len(df_filtered) < Len(df)

\* how many rows of the filtered table lie below / tie with row i on a metric
Below(col, i) ==
    Cardinality({j \in 1..Len(df_filtered) :
                    RatLess(Cell(df_filtered[j], col), Cell(df_filtered[i], col))})

Ties(col, i) ==
    Cardinality({j \in 1..Len(df_filtered) :
                    RatEq(Cell(df_filtered[j], col), Cell(df_filtered[i], col))})

HoldsMaximum(col, i) ==
    \A j \in 1..Len(df_filtered) :
        ~RatLess(Cell(df_filtered[i], col), Cell(df_filtered[j], col))

\* C5: for a non-empty filtered set and each of the 11 metrics, a percentile
\* is the average-tie rank (rows below + (ties + 1) / 2) divided by the
\* population size, times 100; it lies in [0, 100]; a row holding the maximum
\* raw value of a metric has the maximum percentile of that metric.
C5_PercentileRanks ==
    (WidgetsRendered /\ df_filtered # EmptyTable) =>
        /\ Len(percentile_df) = Len(df_filtered)
        /\ Cardinality(Range(target_cols)) = 11
        /\ \A i \in 1..Len(percentile_df) :
              /\ DOMAIN percentile_df[i].pct = Range(target_cols)
              /\ \A col \in Range(target_cols) :
                    LET p == percentile_df[i].pct[col]
                    IN  /\ p.den > 0
                        /\ 0 <= p.num /\ p.num <= 100 * p.den
                        /\ p.num * 2 * Len(df_filtered)
                               = 100 * (2 * Below(col, i) + Ties(col, i) + 1) * p.den
                        /\ HoldsMaximum(col, i) =>
                              \A j \in 1..Len(percentile_df) :
                                  ~RatLess(p, percentile_df[j].pct[col])

\* two rows of the filtered set tie at the maximum of a metric
C5_Witness ==
    /\ WidgetsRendered
    /\ \E col \in Range(target_cols) : \E i, j \in 1..Len(df_filtered) :
          /\ i # j
          /\ HoldsMaximum(col, i) /\ HoldsMaximum(col, j)
          /\ \E k \in 1..Len(df_filtered) : ~HoldsMaximum(col, k)

\* C6: without an explicit factor the multiplier is 1.03 for age < 26, 1.00
\* for 26 <= age <= 30 and 0.95 for age > 30; an explicit factor is used as it
\* is, whatever the age; each of PTS, AST, REB, FGA of the result is the input
\* stat times that multiplier, the multiplier is returned, and a second call
\* on the same inputs returns the same result.
C6_AgeBracketProjection ==
    projOut # <<>> =>
        LET age    == projIn.stats.AGE
            chosen == IF projIn.age_factor # <<>> THEN projIn.age_factor[1]
                      ELSE IF age < 26 THEN 103
                      ELSE IF age > 30 THEN 95
                      ELSE 100
            got    == projOut[1]
        IN  /\ got.age_factor = chosen
            /\ got.proj.PTS = projIn.stats.PTS * chosen
            /\ got.proj.AST = projIn.stats.AST * chosen
            /\ got.proj.REB = projIn.stats.REB * chosen
            /\ got.proj.FGA = projIn.stats.FGA * chosen
            /\ DOMAIN got.proj = {"PTS", "AST", "REB", "FGA"}
            /\ (projIn.age_factor = <<>> /\ age \in {26, 30}) => got.age_factor = 100
            /\ \A k \in 1..Len(projOut) : projOut[k] = got

\* a player aged exactly 30 projected twice without an explicit factor
C6_Witness ==
    /\ Len(projOut) = 2
    /\ projIn.age_factor = <<>>
    /\ projIn.stats.AGE = 30
    /\ projIn.stats.PTS > 0

\* the career table the store of get_career_stats holds for the shown player
CareerEntries ==
    {e \in careerCache : e.key = PlayerStats(df_filtered, p1_name).PLAYER_ID}

\* what holds of the displayed state after every run of the script
C7_AfterRun ==
    /\ \A e \in nbaCache : e.result.error => e.result.value = EmptyTable
    /\ (outcome # "not_run" /\ df = EmptyTable) =>
          /\ outcome = "stopped"
          /\ df_filtered = EmptyTable /\ percentile_df = EmptyTable
          /\ player_list = <<>>
          /\ careerView = "none" /\ careerCalls = {}
    /\ outcome = "stopped" => df = EmptyTable
    /\ fetchError => outcome = "stopped"
    /\ outcome = "single" =>
          /\ CareerEntries # {}
          /\ \A e \in CareerEntries :
                careerView = (IF e.result = EmptyTable THEN "warning" ELSE "charts")

\* a run of the script: the environment does not move during it
RunStep == clock' = clock /\ srcUp' = srcUp /\ srcVersion' = srcVersion

\* C7: a failure of the external source never leaves get_nba_data or
\* get_career_stats: each returns an empty table; an empty season table stops
\* the run before any view uses it; an empty career table makes the career
\* view show the "Career data unavailable" warning instead of charts.
C7_FetchFailureDegrades ==
    [][RunStep =>
          /\ C7_AfterRun'
          /\ (nbaCalls' # {} /\ ~srcUp) =>
                (fetchError' /\ df' = EmptyTable /\ outcome' = "stopped")
          /\ (careerCalls' # {} /\ ~srcUp) =>
                (outcome' = "single" /\ careerView' = "warning")]_vars

\* the season table was served, then the career fetch failed for the player
C7_Witness ==
    /\ ~srcUp
    /\ outcome = "single"
    /\ careerCalls # {}
    /\ careerView = "warning"

\* C8 (as claimed): a view on an empty dataset short-circuits; in particular
\* when the threshold leaves no player of a non-empty season table, neither
\* the single-player view nor the comparison view raises an unhandled error.
C8_EmptyFilterNeverRaises ==
    (df # EmptyTable /\ df_filtered = EmptyTable) => outcome # "exception"

\* a run that found a live entry for its key makes no call and gets the
\* entry's result; a run that found none calls the source and stores the result
InWindow(e) == e.at <= clock /\ clock - e.at < 3600

C9_NbaStore ==
    RunStep =>
        LET served == {e \in nbaCache : e.key = selected_season' /\ InWindow(e)}
        IN  IF served # {}
            THEN /\ nbaCalls' = {}
                 /\ \A e \in served : df' = e.result.value /\ fetchError' = e.result.error
                 /\ nbaCache' = nbaCache
            ELSE /\ nbaCalls' = {selected_season'}
                 /\ df' = FetchNbaData(selected_season', srcUp, srcVersion).value
                 /\ \E e \in nbaCache' : /\ e.key = selected_season' /\ e.at = clock
                                         /\ e.result.value = df'

C9_CareerStore ==
    (RunStep /\ outcome' = "single") =>
        LET pid    == PlayerStats(df_filtered', p1_name').PLAYER_ID
            served == {e \in careerCache : e.key = pid /\ InWindow(e)}
        IN  IF served # {}
            THEN /\ careerCalls' = {}
                 /\ \A e \in served :
                       careerView' = (IF e.result = EmptyTable THEN "warning" ELSE "charts")
                 /\ careerCache' = careerCache
            ELSE /\ careerCalls' = {pid}
                 /\ \E e \in careerCache' : /\ e.key = pid /\ e.at = clock
                                            /\ e.result = FetchCareerStats(pid, srcUp)

\* C9: the season table is cached per season and the career table per player
\* id, each entry for one hour from the call that stored it: a request for the
\* same key inside the window makes no call to the source and returns what
\* the first request returned (an empty table after a failed fetch included),
\* a request for another key is not served from that entry, and a request
\* after the window calls the source again.
C9_CachePerKeyForOneHour == [][C9_NbaStore /\ C9_CareerStore]_vars

\* a failed fetch is being served from the store while the source is up again
C9_Witness ==
    /\ srcUp
    /\ outcome = "stopped"
    /\ fetchError
    /\ nbaCalls = {}
    /\ \E e \in nbaCache : e.key = selected_season /\ e.result.error /\ e.at < clock

\* C10: free-throw rate = FTA / FGA when FGA is not 0 and FTA itself when FGA
\* is 0; the computation never divides by zero and leaves the row's FGA (and
\* FTA) as fetched.  FTA and FGA are in tenths, so "FTA itself" is FTA / 10.
C10_FreeThrowRate ==
    ftrOut # <<>> =>
        LET row == ftrOut[1]
        IN  /\ row.FTr.den # 0
            /\ ftrIn.FGA # 0 => row.FTr.num * ftrIn.FGA = ftrIn.FTA * row.FTr.den
            /\ ftrIn.FGA = 0 => row.FTr.num * 10 = ftrIn.FTA * row.FTr.den
            /\ row.FGA = ftrIn.FGA
            /\ row.FTA = ftrIn.FTA

\* a row with free throws attempted and no field goal attempted
C10_Witness ==
    /\ ftrOut # <<>>
    /\ ftrIn.FGA = 0
    /\ ftrIn.FTA > 0

====
